---- MODULE Spec2Model ----
(***************************************************************************)
(* The lxst JNI bridge: two adapters that expose native codec engines to   *)
(* a managed caller through opaque integer handles.                        *)
(*   lxst_codec2_jni.c  fixed-frame adapter (libcodec2)                     *)
(*   lxst_opus_jni.c    variable-frame adapter (libopus)                    *)
(* Every native method is a sequence of statements, each an operator on    *)
(* the machine (heap, engine instances, the call's locals); a call runs    *)
(* its statements to the return.  The managed caller follows the bridge's  *)
(* contract (a handle is used by one call at a time and never after its    *)
(* destroy).  The C heap, the engines' instances and the JNI array views   *)
(* are explicit state.                                                     *)
(***************************************************************************)
EXTENDS Integers, FiniteSets, Sequences, TLC

\* ---------------------------------------------------------------- bounds
\* Number of context-sized blocks malloc can hand out.
MaxCtx == 2
\* Number of engine instances (CODEC2, OpusEncoder, OpusDecoder) the
\* libraries can hold at once.
MaxEng == 3
\* Width of uintptr_t and jlong, scaled down from 64 bits.
WordBits == 5
\* malloc's alignment: block i lives at address Align * i.
Align == 8
\* Largest array length the caller passes to the variable-frame adapter.
MaxLen == 2

\* The managed threads that call into the bridge.
Threads == {"T1", "T2"}

\* Array contents, abstracted to one value per array.
DataVals == {0, 1}

\* An engine's internal state, abstracted to the parity of the frames it
\* has processed: the state after one more frame.
NextSt(st) == 1 - st

\* What an output array holds before the call: not a value an engine writes.
Stale == 2

\* ------------------------------------------------------- program constants
NULL == 0
\* malloc returns storage whose fields hold no value yet.
Uninit == -1

\* Release modes of the JNI array interface.
JNI_COMMIT_FREE == 0
JNI_ABORT == 2

CODEC2_MODE_3200 == 0
CODEC2_MODE_2400 == 1
CODEC2_MODE_1600 == 2
CODEC2_MODE_1400 == 3
CODEC2_MODE_1300 == 4
CODEC2_MODE_1200 == 5
CODEC2_MODE_700C == 8

ValidModes ==
  {CODEC2_MODE_3200, CODEC2_MODE_2400, CODEC2_MODE_1600, CODEC2_MODE_1400,
   CODEC2_MODE_1300, CODEC2_MODE_1200, CODEC2_MODE_700C}

\* Mode values a caller tries: the valid ones and some the engine rejects.
AllModes == ValidModes \cup {-1, 6, 7, 9}

\* libopus's return codes.
OPUS_OK == 0
OPUS_BAD_ARG == -1
OPUS_BUFFER_TOO_SMALL == -2
OPUS_INVALID_PACKET == -4
OPUS_ALLOC_FAIL == -7

\* What libopus accepts.
OpusRates == {8000, 12000, 16000, 24000, 48000}
OpusChannels == {1, 2}
OpusApplications == {2048, 2049, 2051}
\* Frame counts libopus accepts, abstracted to one.
OpusFrames == {960}

\* Parameter values the caller tries on the variable-frame adapter:
\* (sampleRate, channels, application), two that libopus accepts and one
\* with each parameter out of its set.
OpusParamInputs ==
  {<<48000, 1, 2048>>, <<8000, 2, 2049>>,
   <<44100, 1, 2048>>, <<48000, 3, 2048>>, <<48000, 1, 0>>}
BitrateInputs == {16000, 0}
ComplexityInputs == {5, 11}
\* The configurations a caller opens an Opus adapter with.
OpusConfigs == OpusParamInputs \X BitrateInputs \X ComplexityInputs

\* The callers the model runs.  One tries every mode, holds one handle at
\* a time and keeps track of the handle values it has destroyed; the other
\* holds as many handles as it can get and uses two valid modes and an
\* invalid one.  Both try every Opus configuration.
Callers ==
  {[modes |-> AllModes, maxLive |-> 1, tracks |-> TRUE, opus |-> OpusConfigs],
   [modes |-> {CODEC2_MODE_3200, CODEC2_MODE_700C, 6}, maxLive |-> MaxCtx + 1,
    tracks |-> FALSE, opus |-> OpusConfigs]}
FrameInputs == {960, 0}
\* Array lengths the caller passes: an empty array and the largest one.
LenInputs == {0, MaxLen}
\* A packet the decoder rejects.
Corrupt == 1

\* libcodec2's frame geometry per mode (samples per frame).
codec2_samples_per_frame(mode) ==
  IF mode \in {CODEC2_MODE_3200, CODEC2_MODE_2400} THEN 160 ELSE 320

\* libcodec2's frame geometry per mode (bytes per frame).
codec2_bytes_per_frame(mode) ==
  CASE mode = CODEC2_MODE_3200 -> 8
    [] mode = CODEC2_MODE_2400 -> 6
    [] mode = CODEC2_MODE_1600 -> 8
    [] mode = CODEC2_MODE_1400 -> 7
    [] mode = CODEC2_MODE_1300 -> 7
    [] mode = CODEC2_MODE_1200 -> 6
    [] OTHER -> 4

\* ------------------------------------------------------------------ state
VARIABLES
  heap,      \* the C heap: address -> context block
  eng,       \* the engines' instances: id -> instance
  th,        \* per thread: the native call in progress and its locals
  held,      \* handles the caller got from create and has not destroyed
  caller,    \* which of the Callers is calling
  badFree,   \* something was released that was not live (a double release)
  crashed,   \* the process died (a NULL view was dereferenced)
  destroyed, \* the handle values a caller that keeps track has destroyed
  loaded     \* per library: not loaded yet, loaded ("ok"), or load failed

vars == <<heap, eng, th, held, caller, badFree, crashed, destroyed, loaded>>

CtxAddrs == {Align * i : i \in 1..MaxCtx}
EngIds == 1..MaxEng

FreeBlock == [kind |-> "free", c2 |-> Uninit, nsam |-> Uninit, nbyte |-> Uninit,
              enc |-> Uninit, dec |-> Uninit]

\* What malloc(sizeof(Codec2Ctx)) / malloc(sizeof(OpusCtx)) returns.
FreshBlock(kind) == [FreeBlock EXCEPT !.kind = kind]

FreeEng == [kind |-> "free", nsam |-> 0, nbyte |-> 0, st |-> 0]

NoView == [kind |-> "none", data |-> 0]

\* The locals of a thread that is not inside the bridge.  `input` is what
\* the caller's input array held when the call was made and `wrote` what the
\* engine has written through the output view (Stale: nothing); `declared`
\* is how many bytes of its encoded array the caller of decode takes to be
\* the packet; `arrLen` is the length of the byte array passed to a
\* variable-frame call and `len` the local that GetArrayLength fills.
IdleT == [op |-> "none", pc |-> "idle", handle |-> 0, ctx |-> NULL, mode |-> 0,
          input |-> 0, wrote |-> Stale, declared |-> 0, arrLen |-> 0,
          cls |-> NULL, ret |-> 0,
          sampleRate |-> 0, channels |-> 0, application |-> 0, bitrate |-> 0,
          complexity |-> 0, enc |-> NULL, dec |-> NULL,
          pcmArr |-> 0, byteArr |-> 0, pcmBuf |-> NoView, byteBuf |-> NoView,
          len |-> 0, frames |-> 0, result |-> 0, trace |-> <<>>]

\* One step of a call's history: what was done to which object.
Ev(e, w, a) == [ev |-> e, what |-> w, at |-> a]

\* The machine a statement runs on: the heap, the engines' instances, the
\* running call's locals, and the two failure flags.
Machine(t) ==
  [heap |-> heap, eng |-> eng, me |-> th[t], badFree |-> badFree,
   crashed |-> crashed]

\* The statement passed a NULL view on: the process dies.
Crash(m) == [m EXCEPT !.crashed = TRUE]

\* A cast that drops the address bits above the alignment.
handle_from_ctx_narrow(p) == IF p > Align THEN p - Align ELSE p

\* (jlong)(uintptr_t)ctx: the pointer's bits read as a signed integer.
handle_from_ctx(p) ==
  IF p >= 2 ^ (WordBits - 1) THEN p - 2 ^ WordBits ELSE p

\* (Ctx *)(uintptr_t)h: the handle's bits read as an address.
ctx_from_handle(h) == h % (2 ^ WordBits)

\* The results malloc can give: a free block's address (first fit: every
\* set of live addresses still arises, by destroying the lower ones), or
\* NULL.
malloc(hp) ==
  {a \in CtxAddrs : hp[a].kind = "free"
                    /\ \A b \in CtxAddrs : b < a => hp[b].kind # "free"}
  \cup {NULL}

\* free(p): the machine afterwards.
free(m, p) ==
  [m EXCEPT !.heap = [@ EXCEPT ![p] = FreeBlock],
            !.badFree = (@ \/ m.heap[p].kind = "free"),
            !.me = [@ EXCEPT !.trace = Append(@, Ev("free", "ctx", p))]]

\* The results an engine constructor can give: a new instance (the lowest
\* free slot: instances are interchangeable), or NULL.
EngAlloc(en) ==
  {e \in EngIds : en[e].kind = "free"
                  /\ \A f \in 1..(e - 1) : en[f].kind # "free"} \cup {NULL}

\* An engine's destructor on instance e, which the caller takes to be of
\* the given kind: the machine afterwards.
EngDestroy(m, kind, e) ==
  [m EXCEPT !.eng = [@ EXCEPT ![e] = FreeEng],
            !.badFree = (@ \/ m.eng[e].kind # kind),
            !.me = [@ EXCEPT !.trace = Append(@, Ev("free", kind, e))]]

\* A handle is in use while some thread's call holds it.
InUse(h) == \E t \in Threads : th[t].pc # "idle" /\ th[t].handle = h

\* Handles of the given adapter the caller may pass to a call now.
Usable(type) == {r \in held : r.type = type /\ ~InUse(r.h)}

\* The caller asks for another handle only below its limit.
CanCreate == Cardinality(held) < caller.maxLive

\* The two native libraries.
Libs == {"c2", "opus"}

\* The library a native method belongs to.
LibOf(op) ==
  IF op \in {"c2_onload", "c2_create", "c2_destroy", "c2_nsam", "c2_nbyte",
             "c2_encode", "c2_decode"}
  THEN "c2" ELSE "opus"

\* No context exists and no call is running.
Fresh ==
  /\ heap = [a \in CtxAddrs |-> FreeBlock]
  /\ eng = [e \in EngIds |-> FreeEng]
  /\ th = [t \in Threads |-> IdleT]
  /\ held = {}
  /\ badFree = FALSE
  /\ crashed = FALSE
  /\ destroyed = {}

\* Both libraries have been loaded and their methods registered.
Init ==
  /\ Fresh
  /\ caller \in Callers
  /\ loaded = [l \in Libs |-> "ok"]

\* Neither library has been loaded yet.
InitLoad ==
  /\ Fresh
  /\ caller \in {c \in Callers : c.tracks}
  /\ loaded = [l \in Libs |-> "no"]

\* ------------------------------------------------------- JNI array views
\* Get<Type>ArrayElements hands out the array's own storage, a temporary
\* copy of it, or NULL when it fails.
AcquireResults == {"direct", "copy", "null"}

GetArrayElements(kind, arr) ==
  [kind |-> kind, data |-> IF kind = "copy" THEN arr ELSE 0]

\* What native code reads through a view of an array holding arr.
ViewRead(view, arr) == IF view.kind = "direct" THEN arr ELSE view.data

\* The array after native code wrote v through a view of it.
ArrAfterWrite(view, arr, v) == IF view.kind = "direct" THEN v ELSE arr

\* The view after native code wrote v through it.
ViewAfterWrite(view, v) ==
  IF view.kind = "copy" THEN [view EXCEPT !.data = v] ELSE view

\* Release<Type>ArrayElements: a copy is written back unless the mode is
\* JNI_ABORT; the array's own storage needs nothing.
ReleaseArrayElements(view, arr, mode) ==
  IF view.kind = "copy" /\ mode # JNI_ABORT THEN view.data ELSE arr

ReleasedView == [kind |-> "released", data |-> 0]

\* pcmBuf = GetShortArrayElements(env, pcm, NULL), for each result.
AcquirePcm(m, next) ==
  {[m EXCEPT !.me = [@ EXCEPT
       !.pc = next,
       !.pcmBuf = GetArrayElements(k, m.me.pcmArr),
       !.trace = Append(@, Ev(IF k = "null" THEN "acquire_failed"
                              ELSE "acquire", "pcm", 0))]] :
     k \in AcquireResults}

\* outBuf / encBuf = GetByteArrayElements(env, array, NULL).
AcquireByte(m, next) ==
  {[m EXCEPT !.me = [@ EXCEPT
       !.pc = next,
       !.byteBuf = GetArrayElements(k, m.me.byteArr),
       !.trace = Append(@, Ev(IF k = "null" THEN "acquire_failed"
                              ELSE "acquire", "byte", 0))]] :
     k \in AcquireResults}

\* ReleaseShortArrayElements(env, array, pcmBuf, mode).  Releasing a NULL
\* view is undefined: nothing happens, or the process dies.
ReleasePcm(m, mode, next) ==
  {[m EXCEPT !.me = [@ EXCEPT
       !.pc = next,
       !.pcmArr = ReleaseArrayElements(m.me.pcmBuf, @, mode),
       !.pcmBuf = ReleasedView,
       !.trace = Append(@, Ev(IF m.me.pcmBuf.kind = "null" THEN "release_null"
                              ELSE "release", "pcm", mode))]]}
  \cup (IF m.me.pcmBuf.kind = "null" THEN {Crash(m)} ELSE {})

\* ReleaseByteArrayElements(env, array, buf, mode).
ReleaseByte(m, mode, next) ==
  {[m EXCEPT !.me = [@ EXCEPT
       !.pc = next,
       !.byteArr = ReleaseArrayElements(m.me.byteBuf, @, mode),
       !.byteBuf = ReleasedView,
       !.trace = Append(@, Ev(IF m.me.byteBuf.kind = "null" THEN "release_null"
                              ELSE "release", "byte", mode))]]}
  \cup (IF m.me.byteBuf.kind = "null" THEN {Crash(m)} ELSE {})

\* What an engine reads through an input view: the array's contents, or,
\* through a NULL view, whatever lies there.
EngineReads(view, arr) ==
  IF view.kind = "null" THEN DataVals ELSE {ViewRead(view, arr)}

\* ------------------------------------------------- fixed-frame adapter
\* codec2_create(mode): NULL for a mode the library does not know and when
\* it cannot allocate; otherwise a new instance with the mode's geometry.
codec2_create(en, mode) ==
  IF mode \in ValidModes THEN EngAlloc(en) ELSE {NULL}

NewCodec2(mode) ==
  [FreeEng EXCEPT !.kind = "c2",
                  !.nsam = codec2_samples_per_frame(mode),
                  !.nbyte = codec2_bytes_per_frame(mode)]

\* codec2_encode / codec2_decode: one frame in, one frame out; the
\* instance's state moves on and the output depends on it.
codec2_frame(e, in) == [st |-> NextSt(e.st), out |-> (e.st + in) % 2]

\* The caller's create(mode).
C2Create_call(mode) ==
  [IdleT EXCEPT !.op = "c2_create", !.pc = "c2Create_malloc", !.mode = mode]

\* nCreate, lines 30-31: ctx = malloc(...); if (!ctx) return 0.
C2Create_malloc(m) ==
  {IF p = NULL
   THEN [m EXCEPT !.me = [@ EXCEPT !.pc = "ret", !.result = 0]]
   ELSE [m EXCEPT !.heap = [@ EXCEPT ![p] = FreshBlock("c2ctx")],
                  !.me = [@ EXCEPT !.pc = "c2Create_engine", !.ctx = p,
                            !.trace = Append(@, Ev("alloc", "ctx", p))]] :
   p \in malloc(m.heap)}

\* A create that forgets the context when the engine refuses the mode.
C2Create_fail_leak(m) ==
  [m EXCEPT !.me = [@ EXCEPT !.pc = "ret", !.result = 0]]

\* nCreate, line 34, the failure branch: free(ctx); return 0.
C2Create_fail(m) ==
  [free(m, m.me.ctx) EXCEPT !.me = [@ EXCEPT !.pc = "ret", !.result = 0]]

\* nCreate, lines 33-34: ctx->c2 = codec2_create(mode).
C2Create_engine(m) ==
  {IF c2 = NULL
   THEN C2Create_fail(m)
   ELSE [m EXCEPT !.eng = [@ EXCEPT ![c2] = NewCodec2(m.me.mode)],
                  !.heap = [@ EXCEPT ![m.me.ctx].c2 = c2],
                  !.me = [@ EXCEPT !.pc = "c2Create_sizes",
                            !.trace = Append(@, Ev("alloc", "c2", c2))]] :
   c2 \in codec2_create(m.eng, m.me.mode)}

\* A create that returns zero after constructing everything.
C2Create_sizes_zero(m) ==
  LET ctx == m.me.ctx
      c2 == m.heap[ctx].c2
  IN {[m EXCEPT !.heap = [@ EXCEPT ![ctx].nsam = m.eng[c2].nsam,
                                   ![ctx].nbyte = m.eng[c2].nbyte],
                !.me = [@ EXCEPT !.pc = "ret", !.result = 0]]}

\* nCreate, lines 36-38: cache the two sizes and return the handle.
C2Create_sizes(m) ==
  LET ctx == m.me.ctx
      c2 == m.heap[ctx].c2
  IN {[m EXCEPT !.heap = [@ EXCEPT ![ctx].nsam = m.eng[c2].nsam,
                                   ![ctx].nbyte = m.eng[c2].nbyte],
                !.me = [@ EXCEPT !.pc = "ret",
                          !.result = handle_from_ctx(ctx)]]}

\* The caller's destroy(handle).
C2Destroy_call(h) ==
  [IdleT EXCEPT !.op = "c2_destroy", !.pc = "c2Destroy_entry", !.handle = h]

\* A destroy without the NULL check.
C2Destroy_entry_unchecked(m) ==
  {[m EXCEPT !.me = [@ EXCEPT !.ctx = ctx_from_handle(m.me.handle),
                                !.pc = "c2Destroy_engine"]]}

\* nDestroy, lines 42-43: ctx = ctx_from_handle(handle); if (!ctx) return.
C2Destroy_entry(m) ==
  LET ctx == ctx_from_handle(m.me.handle) IN
  {[m EXCEPT !.me = [@ EXCEPT !.ctx = ctx,
       !.pc = IF ctx = NULL THEN "ret" ELSE "c2Destroy_engine"]]}

\* A destroy that frees the context before it releases the engine.
C2Destroy_engine_ctxFirst(m) ==
  LET c2 == m.heap[m.me.ctx].c2 IN
  {[EngDestroy(free(m, m.me.ctx), "c2", c2)
      EXCEPT !.me = [@ EXCEPT !.pc = "ret"]]}

\* nDestroy, line 44: codec2_destroy(ctx->c2).
C2Destroy_engine(m) ==
  {[EngDestroy(m, "c2", m.heap[m.me.ctx].c2)
      EXCEPT !.me = [@ EXCEPT !.pc = "c2Destroy_free"]]}

\* A destroy that releases the engine and keeps the context.
C2Destroy_free_skipped(m) ==
  {[m EXCEPT !.me = [@ EXCEPT !.pc = "ret"]]}

\* nDestroy, line 45: free(ctx).
C2Destroy_free(m) ==
  {[free(m, m.me.ctx) EXCEPT !.me = [@ EXCEPT !.pc = "ret"]]}

\* The caller's getSamplesPerFrame(handle); ctx_from_handle(handle).
C2GetSamplesPerFrame_call(h) ==
  [IdleT EXCEPT !.op = "c2_nsam", !.pc = "c2GetSamplesPerFrame", !.handle = h,
                !.ctx = ctx_from_handle(h)]

\* A query that counts the frames it has been asked about in the context.
C2GetSamplesPerFrame_counting(m) ==
  {[m EXCEPT !.heap = [@ EXCEPT ![m.me.ctx].nsam = @ + 1],
             !.me = [@ EXCEPT !.pc = "ret", !.result = m.heap[m.me.ctx].nsam]]}

\* nGetSamplesPerFrame, line 49: return ctx->nsam.
C2GetSamplesPerFrame(m) ==
  {[m EXCEPT !.me = [@ EXCEPT !.pc = "ret", !.result = m.heap[m.me.ctx].nsam]]}

\* The caller's getFrameBytes(handle); ctx_from_handle(handle).
C2GetFrameBytes_call(h) ==
  [IdleT EXCEPT !.op = "c2_nbyte", !.pc = "c2GetFrameBytes", !.handle = h,
                !.ctx = ctx_from_handle(h)]

\* nGetFrameBytes, line 53: return ctx->nbyte.
C2GetFrameBytes(m) ==
  {[m EXCEPT !.me = [@ EXCEPT !.pc = "ret", !.result = m.heap[m.me.ctx].nbyte]]}

\* The caller's encode(handle, pcm, out): out holds nothing yet.
C2Encode_call(h, pcm) ==
  [IdleT EXCEPT !.op = "c2_encode", !.pc = "c2Encode_pcm", !.handle = h,
                !.pcmArr = pcm, !.byteArr = Stale, !.input = pcm]

\* nEncode, lines 58-60: ctx = ctx_from_handle(handle); acquire pcm.
C2Encode_pcm(m) ==
  AcquirePcm([m EXCEPT !.me = [@ EXCEPT !.ctx = ctx_from_handle(m.me.handle)]],
             "c2Encode_out")

\* nEncode, line 61: acquire out.
C2Encode_out(m) == AcquireByte(m, "c2Encode_engine")

\* An encode that keeps the engine in one place for every handle.
C2Encode_engine_shared(m) ==
  LET me == m.me
      c2 == CHOOSE e \in EngIds :
              /\ m.eng[e].kind = "c2"
              /\ \A f \in 1..(e - 1) : m.eng[f].kind # "c2"
  IN {LET r == codec2_frame(m.eng[c2], in) IN
      [m EXCEPT !.eng = [@ EXCEPT ![c2].st = r.st],
                !.me = [@ EXCEPT !.pc = "c2Encode_relPcm",
                          !.byteArr = ArrAfterWrite(me.byteBuf, @, r.out),
                          !.byteBuf = ViewAfterWrite(@, r.out),
                          !.wrote = IF me.byteBuf.kind = "null" THEN @ ELSE r.out,
                          !.trace = Append(@, Ev("engine", "c2", c2))]] :
      in \in EngineReads(me.pcmBuf, me.pcmArr)}
     \cup (IF me.pcmBuf.kind = "null" \/ me.byteBuf.kind = "null"
           THEN {Crash(m)} ELSE {})

\* nEncode, line 63: codec2_encode(ctx->c2, outBuf, pcmBuf).
C2Encode_engine(m) ==
  LET me == m.me
      c2 == m.heap[me.ctx].c2
  IN {LET r == codec2_frame(m.eng[c2], in) IN
      [m EXCEPT !.eng = [@ EXCEPT ![c2].st = r.st],
                !.me = [@ EXCEPT !.pc = "c2Encode_relPcm",
                          !.byteArr = ArrAfterWrite(me.byteBuf, @, r.out),
                          !.byteBuf = ViewAfterWrite(@, r.out),
                          !.wrote = IF me.byteBuf.kind = "null" THEN @ ELSE r.out,
                          !.trace = Append(@, Ev("engine", "c2", c2))]] :
      in \in EngineReads(me.pcmBuf, me.pcmArr)}
     \cup (IF me.pcmBuf.kind = "null" \/ me.byteBuf.kind = "null"
           THEN {Crash(m)} ELSE {})

\* nEncode, line 65: release pcm, discarding a copy.
C2Encode_relPcm(m) == ReleasePcm(m, JNI_ABORT, "c2Encode_relOut")

\* nEncode, line 66: release out, writing a copy back.
C2Encode_relOut(m) == ReleaseByte(m, JNI_COMMIT_FREE, "c2Encode_return")

\* An encode that returns the samples consumed, not the bytes written.
C2Encode_return_nsam(m) ==
  {[m EXCEPT !.me = [@ EXCEPT !.pc = "ret",
                       !.result = m.heap[m.me.ctx].nsam]]}

\* nEncode, line 67: return ctx->nbyte.
C2Encode_return(m) ==
  {[m EXCEPT !.me = [@ EXCEPT !.pc = "ret",
                       !.result = m.heap[m.me.ctx].nbyte]]}

\* The caller's decode(handle, encoded, pcmOut): pcmOut holds nothing yet.
C2Decode_call(h, bytes) ==
  [IdleT EXCEPT !.op = "c2_decode", !.pc = "c2Decode_enc", !.handle = h,
                !.pcmArr = Stale, !.byteArr = bytes, !.input = bytes]

\* nDecode, lines 72-74: ctx = ctx_from_handle(handle); acquire encoded.
C2Decode_enc(m) ==
  AcquireByte([m EXCEPT !.me = [@ EXCEPT !.ctx = ctx_from_handle(m.me.handle)]],
              "c2Decode_pcm")

\* nDecode, line 75: acquire pcmOut.
C2Decode_pcm(m) == AcquirePcm(m, "c2Decode_engine")

\* nDecode, line 77: codec2_decode(ctx->c2, pcmBuf, encBuf).
C2Decode_engine(m) ==
  LET me == m.me
      c2 == m.heap[me.ctx].c2
  IN {LET r == codec2_frame(m.eng[c2], in) IN
      [m EXCEPT !.eng = [@ EXCEPT ![c2].st = r.st],
                !.me = [@ EXCEPT !.pc = "c2Decode_relEnc",
                          !.pcmArr = ArrAfterWrite(me.pcmBuf, @, r.out),
                          !.pcmBuf = ViewAfterWrite(@, r.out),
                          !.wrote = IF me.pcmBuf.kind = "null" THEN @ ELSE r.out,
                          !.trace = Append(@, Ev("engine", "c2", c2))]] :
      in \in EngineReads(me.byteBuf, me.byteArr)}
     \cup (IF me.pcmBuf.kind = "null" \/ me.byteBuf.kind = "null"
           THEN {Crash(m)} ELSE {})

\* nDecode, line 79: release encoded, discarding a copy.
C2Decode_relEnc(m) == ReleaseByte(m, JNI_ABORT, "c2Decode_relPcm")

\* A decode that discards the output view's copy.
C2Decode_relPcm_abort(m) == ReleasePcm(m, JNI_ABORT, "c2Decode_return")

\* nDecode, line 80: release pcmOut, writing a copy back.
C2Decode_relPcm(m) == ReleasePcm(m, JNI_COMMIT_FREE, "c2Decode_return")

\* nDecode, line 81: return ctx->nsam.
C2Decode_return(m) ==
  {[m EXCEPT !.me = [@ EXCEPT !.pc = "ret",
                       !.result = m.heap[m.me.ctx].nsam]]}

\* ---------------------------------------------- variable-frame adapter
\* opus_encoder_create(Fs, channels, application, &error): the instance
\* (NULL on failure) and the error code.
opus_encoder_create(en, Fs, channels, application) ==
  IF Fs \in OpusRates /\ channels \in OpusChannels
     /\ application \in OpusApplications
  THEN {[obj |-> e, err |-> IF e = NULL THEN OPUS_ALLOC_FAIL ELSE OPUS_OK] :
          e \in EngAlloc(en)}
  ELSE {[obj |-> NULL, err |-> OPUS_BAD_ARG]}

\* opus_decoder_create(Fs, channels, &error).
opus_decoder_create(en, Fs, channels) ==
  IF Fs \in OpusRates /\ channels \in OpusChannels
  THEN {[obj |-> e, err |-> IF e = NULL THEN OPUS_ALLOC_FAIL ELSE OPUS_OK] :
          e \in EngAlloc(en)}
  ELSE {[obj |-> NULL, err |-> OPUS_BAD_ARG]}

\* opus_encoder_ctl(enc, OPUS_SET_BITRATE(x)): the code it returns.
OPUS_SET_BITRATE(x) == IF x > 0 THEN OPUS_OK ELSE OPUS_BAD_ARG

\* opus_encoder_ctl(enc, OPUS_SET_COMPLEXITY(x)): the code it returns.
OPUS_SET_COMPLEXITY(x) == IF x \in 0..10 THEN OPUS_OK ELSE OPUS_BAD_ARG

\* opus_encode(enc, pcm, frame_size, data, max_data_bytes): the bytes
\* written, at most max_data_bytes, or a negative code; the state after.
opus_encode(e, in, frame_size, max_data_bytes) ==
  IF frame_size \notin OpusFrames
  THEN [ret |-> OPUS_BAD_ARG, st |-> e.st, out |-> Stale]
  ELSE IF max_data_bytes < 1
  THEN [ret |-> OPUS_BUFFER_TOO_SMALL, st |-> e.st, out |-> Stale]
  ELSE [ret |-> 1 + ((e.st + in) % max_data_bytes),
        st |-> NextSt(e.st), out |-> (e.st + in) % 2]

\* opus_decode(dec, data, len, pcm, frame_size, 0): the frames decoded per
\* channel, or a negative code; the state after.  With len = 0 the packet
\* counts as lost and the decoder fills the frame from its own state.
opus_decode(e, in, len, frame_size) ==
  IF frame_size \notin OpusFrames
  THEN [ret |-> OPUS_BUFFER_TOO_SMALL, st |-> e.st, out |-> Stale]
  ELSE IF len < 0
  THEN [ret |-> OPUS_BAD_ARG, st |-> e.st, out |-> Stale]
  ELSE IF len = 0
  THEN [ret |-> frame_size, st |-> NextSt(e.st), out |-> e.st]
  ELSE IF in = Corrupt
  THEN [ret |-> OPUS_INVALID_PACKET, st |-> e.st, out |-> Stale]
  ELSE [ret |-> frame_size, st |-> NextSt(e.st), out |-> (e.st + in) % 2]

\* The caller's create(sampleRate, channels, application, bitrate,
\* complexity).
OpusCreate_call(sampleRate, channels, application, bitrate, complexity) ==
  [IdleT EXCEPT !.op = "opus_create", !.pc = "opusCreate_enc",
                !.sampleRate = sampleRate, !.channels = channels,
                !.application = application, !.bitrate = bitrate,
                !.complexity = complexity]

\* nCreate, lines 33-34: construct the encoder; on failure return 0.
OpusCreate_enc(m) ==
  {IF r.err # OPUS_OK \/ r.obj = NULL
   THEN [m EXCEPT !.me = [@ EXCEPT !.pc = "ret", !.result = 0,
                            !.trace = Append(@, Ev("alloc_failed", "enc", NULL))]]
   ELSE [m EXCEPT !.eng = [@ EXCEPT ![r.obj] = [FreeEng EXCEPT !.kind = "enc"]],
                  !.me = [@ EXCEPT !.pc = "opusCreate_ctl", !.enc = r.obj,
                            !.trace = Append(@, Ev("alloc", "enc", r.obj))]] :
   r \in opus_encoder_create(m.eng, m.me.sampleRate, m.me.channels,
                             m.me.application)}

\* A create that gives up when the engine rejects a tuning value.
OpusCreate_ctl_checked(m) ==
  LET bitrateErr == OPUS_SET_BITRATE(m.me.bitrate)
      complexityErr == OPUS_SET_COMPLEXITY(m.me.complexity)
      tuned == [m EXCEPT !.me = [@ EXCEPT !.pc = "opusCreate_dec",
                  !.trace = @ \o <<Ev("ctl_bitrate", "enc", m.me.enc),
                                   Ev("ctl_complexity", "enc", m.me.enc)>>]]
  IN {IF bitrateErr = OPUS_OK /\ complexityErr = OPUS_OK
      THEN tuned
      ELSE [EngDestroy(tuned, "enc", m.me.enc)
              EXCEPT !.me = [@ EXCEPT !.pc = "ret", !.result = 0]]}

\* nCreate, lines 36-37: set the encoder's bitrate and complexity; what
\* the two calls return is dropped.
OpusCreate_ctl(m) ==
  LET bitrateErr == OPUS_SET_BITRATE(m.me.bitrate)
      complexityErr == OPUS_SET_COMPLEXITY(m.me.complexity)
  IN {[m EXCEPT !.me = [@ EXCEPT !.pc = "opusCreate_dec",
         !.trace = @ \o <<Ev("ctl_bitrate", "enc", m.me.enc),
                          Ev("ctl_complexity", "enc", m.me.enc)>>]]}

\* A create that forgets the encoder when the decoder cannot be built.
OpusCreate_decFail_leak(m) ==
  [m EXCEPT !.me = [@ EXCEPT !.pc = "ret", !.result = 0]]

\* nCreate, lines 41-42: opus_encoder_destroy(enc); return 0.
OpusCreate_decFail(m) ==
  [EngDestroy(m, "enc", m.me.enc)
     EXCEPT !.me = [@ EXCEPT !.pc = "ret", !.result = 0]]

\* nCreate, lines 39-43: construct the decoder.
OpusCreate_dec(m) ==
  {IF r.err # OPUS_OK \/ r.obj = NULL
   THEN OpusCreate_decFail(
          [m EXCEPT !.me = [@ EXCEPT
             !.trace = Append(@, Ev("alloc_failed", "dec", NULL))]])
   ELSE [m EXCEPT !.eng = [@ EXCEPT ![r.obj] = [FreeEng EXCEPT !.kind = "dec"]],
                  !.me = [@ EXCEPT !.pc = "opusCreate_ctx", !.dec = r.obj,
                            !.trace = Append(@, Ev("alloc", "dec", r.obj))]] :
   r \in opus_decoder_create(m.eng, m.me.sampleRate, m.me.channels)}

\* A create that destroys only the encoder when malloc fails.
OpusCreate_ctxFail_leakDec(m) ==
  [EngDestroy(m, "enc", m.me.enc)
     EXCEPT !.me = [@ EXCEPT !.pc = "ret", !.result = 0]]

\* nCreate, lines 47-49: destroy the encoder and the decoder; return 0.
OpusCreate_ctxFail(m) ==
  [EngDestroy(EngDestroy(m, "enc", m.me.enc), "dec", m.me.dec)
     EXCEPT !.me = [@ EXCEPT !.pc = "ret", !.result = 0]]

\* nCreate, lines 51-53: fill the context in and return its handle.
OpusCreate_ok(m, ctx) ==
  [m EXCEPT !.heap = [@ EXCEPT ![ctx] = [FreshBlock("opusctx") EXCEPT
                                           !.enc = m.me.enc, !.dec = m.me.dec]],
            !.me = [@ EXCEPT !.pc = "ret", !.ctx = ctx,
                      !.result = handle_from_ctx(ctx),
                      !.trace = Append(@, Ev("alloc", "ctx", ctx))]]

\* nCreate, lines 45-53: allocate the context.
OpusCreate_ctx(m) ==
  {IF ctx = NULL
   THEN OpusCreate_ctxFail(
          [m EXCEPT !.me = [@ EXCEPT
             !.trace = Append(@, Ev("alloc_failed", "ctx", NULL))]])
   ELSE OpusCreate_ok(m, ctx) :
   ctx \in malloc(m.heap)}

\* The caller's destroy(handle).
OpusDestroy_call(h) ==
  [IdleT EXCEPT !.op = "opus_destroy", !.pc = "opusDestroy_entry", !.handle = h]

\* nDestroy, lines 57-58: ctx = ctx_from_handle(handle); if (!ctx) return.
OpusDestroy_entry(m) ==
  LET ctx == ctx_from_handle(m.me.handle) IN
  {[m EXCEPT !.me = [@ EXCEPT !.ctx = ctx,
       !.pc = IF ctx = NULL THEN "ret" ELSE "opusDestroy_enc"]]}

\* nDestroy, line 59: opus_encoder_destroy(ctx->enc).
OpusDestroy_enc(m) ==
  {[EngDestroy(m, "enc", m.heap[m.me.ctx].enc)
      EXCEPT !.me = [@ EXCEPT !.pc = "opusDestroy_dec"]]}

\* A destroy that passes ctx->enc to the decoder's destructor.
OpusDestroy_dec_encAgain(m) ==
  {[EngDestroy(m, "dec", m.heap[m.me.ctx].enc)
      EXCEPT !.me = [@ EXCEPT !.pc = "opusDestroy_free"]]}

\* nDestroy, line 60: opus_decoder_destroy(ctx->dec).
OpusDestroy_dec(m) ==
  {[EngDestroy(m, "dec", m.heap[m.me.ctx].dec)
      EXCEPT !.me = [@ EXCEPT !.pc = "opusDestroy_free"]]}

\* nDestroy, line 61: free(ctx).
OpusDestroy_free(m) ==
  {[free(m, m.me.ctx) EXCEPT !.me = [@ EXCEPT !.pc = "ret"]]}

\* The caller's encode(handle, pcm, framesPerChannel, out): out has
\* outLen elements and holds nothing yet.
OpusEncode_call(h, pcm, framesPerChannel, outLen) ==
  [IdleT EXCEPT !.op = "opus_encode", !.pc = "opusEncode_pcm", !.handle = h,
                !.pcmArr = pcm, !.byteArr = Stale, !.input = pcm,
                !.frames = framesPerChannel, !.arrLen = outLen]

\* An encode that tells the engine it has one byte more than the array.
OpusEncode_pcm_oneMore(m) ==
  AcquirePcm([m EXCEPT !.me = [@ EXCEPT !.ctx = ctx_from_handle(m.me.handle),
                                        !.len = m.me.arrLen + 1]],
             "opusEncode_out")

\* nEncode, lines 66-69: ctx; outLen = GetArrayLength(out); acquire pcm.
OpusEncode_pcm(m) ==
  AcquirePcm([m EXCEPT !.me = [@ EXCEPT !.ctx = ctx_from_handle(m.me.handle),
                                        !.len = m.me.arrLen]],
             "opusEncode_out")

\* nEncode, line 70: acquire out.
OpusEncode_out(m) == AcquireByte(m, "opusEncode_engine")

\* nEncode, lines 72-73: encoded = opus_encode(ctx->enc, pcmBuf,
\* framesPerChannel, outBuf, outLen).
OpusEncode_engine(m) ==
  LET me == m.me
      enc == m.heap[me.ctx].enc
  IN {LET r == opus_encode(m.eng[enc], in, me.frames, me.len) IN
      [m EXCEPT !.eng = [@ EXCEPT ![enc].st = r.st],
                !.me = [@ EXCEPT !.pc = "opusEncode_relPcm",
                          !.result = r.ret,
                          !.byteArr = IF r.ret >= 0
                                      THEN ArrAfterWrite(me.byteBuf, @, r.out)
                                      ELSE @,
                          !.byteBuf = IF r.ret >= 0
                                      THEN ViewAfterWrite(@, r.out) ELSE @,
                          !.wrote = IF r.ret >= 0 /\ me.byteBuf.kind # "null"
                                    THEN r.out ELSE @,
                          !.trace = Append(@, Ev("engine", "enc", enc))]] :
      in \in EngineReads(me.pcmBuf, me.pcmArr)}
     \cup (IF me.pcmBuf.kind = "null" \/ me.byteBuf.kind = "null"
           THEN {Crash(m)} ELSE {})

\* nEncode, line 75: release pcm, discarding a copy.
OpusEncode_relPcm(m) == ReleasePcm(m, JNI_ABORT, "opusEncode_relOut")

\* An encode that reports an engine failure as a count of zero.
OpusEncode_relOut_clamped(m) ==
  {IF n.crashed THEN n
   ELSE [n EXCEPT !.me = [@ EXCEPT !.result = IF @ < 0 THEN 0 ELSE @]] :
   n \in ReleaseByte(m, JNI_COMMIT_FREE, "ret")}

\* nEncode, lines 76-77: release out, writing a copy back; return encoded.
OpusEncode_relOut(m) == ReleaseByte(m, JNI_COMMIT_FREE, "ret")

\* The caller's decode(handle, encoded, pcmOut, maxFramesPerChannel):
\* encoded has encLen elements; pcmOut holds nothing yet.
OpusDecode_call(h, bytes, encLen, maxFramesPerChannel) ==
  [IdleT EXCEPT !.op = "opus_decode", !.pc = "opusDecode_enc", !.handle = h,
                !.pcmArr = Stale, !.byteArr = bytes, !.input = bytes,
                !.frames = maxFramesPerChannel, !.arrLen = encLen]

\* A decode that takes the packet's length from the caller's count.
OpusDecode_enc_declared(m) ==
  AcquireByte([m EXCEPT !.me = [@ EXCEPT !.ctx = ctx_from_handle(m.me.handle),
                                         !.len = m.me.declared]],
              "opusDecode_pcm")

\* nDecode, lines 83-86: ctx; encLen = GetArrayLength(encoded); acquire it.
OpusDecode_enc(m) ==
  AcquireByte([m EXCEPT !.me = [@ EXCEPT !.ctx = ctx_from_handle(m.me.handle),
                                         !.len = m.me.arrLen]],
              "opusDecode_pcm")

\* nDecode, line 87: acquire pcmOut.
OpusDecode_pcm(m) == AcquirePcm(m, "opusDecode_engine")

\* nDecode, lines 89-90: decoded = opus_decode(ctx->dec, encBuf, encLen,
\* pcmBuf, maxFramesPerChannel, 0).
OpusDecode_engine(m) ==
  LET me == m.me
      dec == m.heap[me.ctx].dec
  IN {LET r == opus_decode(m.eng[dec], in, me.len, me.frames) IN
      [m EXCEPT !.eng = [@ EXCEPT ![dec].st = r.st],
                !.me = [@ EXCEPT !.pc = "opusDecode_relEnc",
                          !.result = r.ret,
                          !.pcmArr = IF r.ret >= 0
                                     THEN ArrAfterWrite(me.pcmBuf, @, r.out)
                                     ELSE @,
                          !.pcmBuf = IF r.ret >= 0
                                     THEN ViewAfterWrite(@, r.out) ELSE @,
                          !.wrote = IF r.ret >= 0 /\ me.pcmBuf.kind # "null"
                                    THEN r.out ELSE @,
                          !.trace = Append(@, Ev("engine", "dec", dec))]] :
      in \in EngineReads(me.byteBuf, me.byteArr)}
     \cup (IF me.pcmBuf.kind = "null" \/ me.byteBuf.kind = "null"
           THEN {Crash(m)} ELSE {})

\* A decode that returns at once when the engine reports an error.
OpusDecode_relEnc_onSuccess(m) ==
  IF m.me.result < 0
  THEN {[m EXCEPT !.me = [@ EXCEPT !.pc = "ret"]]}
  ELSE ReleaseByte(m, JNI_ABORT, "opusDecode_relPcm")

\* nDecode, line 92: release encoded, discarding a copy.
OpusDecode_relEnc(m) == ReleaseByte(m, JNI_ABORT, "opusDecode_relPcm")

\* nDecode, lines 93-94: release pcmOut, writing a copy back; return
\* decoded.
OpusDecode_relPcm(m) == ReleasePcm(m, JNI_COMMIT_FREE, "ret")

\* --------------------------------------------------------- JNI_OnLoad
\* jni.h's result codes and the version JNI_OnLoad asks for and reports.
JNI_OK == 0
JNI_ERR == -1
JNI_EDETACHED == -2
JNI_EVERSION == -3
JNI_VERSION_1_6 == 65542

\* What (*vm)->GetEnv, FindClass and RegisterNatives can give.
GetEnvResults == {JNI_OK, JNI_EDETACHED, JNI_EVERSION}
ClassRef == 1
FindClassResults == {ClassRef, NULL}
RegisterNativesResults == {0, JNI_ERR}

\* The runtime's call of JNI_OnLoad(vm, reserved) of the library.
OnLoad_call(lib) ==
  [IdleT EXCEPT !.op = IF lib = "c2" THEN "c2_onload" ELSE "opus_onload",
                !.pc = "onLoad_getEnv"]

\* JNI_OnLoad: if (GetEnv(vm, &env, JNI_VERSION_1_6) != JNI_OK) return
\* JNI_ERR.
OnLoad_getEnv(m) ==
  {[m EXCEPT !.me = [@ EXCEPT
       !.trace = Append(@, Ev("GetEnv", LibOf(m.me.op), rc)),
       !.pc = IF rc # JNI_OK THEN "ret" ELSE "onLoad_findClass",
       !.result = IF rc # JNI_OK THEN JNI_ERR ELSE @]] :
   rc \in GetEnvResults}

\* JNI_OnLoad: cls = FindClass(env, name); if (!cls) return JNI_ERR.
OnLoad_findClass(m) ==
  {[m EXCEPT !.me = [@ EXCEPT
       !.trace = Append(@, Ev("FindClass", LibOf(m.me.op), c)),
       !.cls = c,
       !.pc = IF c = NULL THEN "ret" ELSE "onLoad_register",
       !.result = IF c = NULL THEN JNI_ERR ELSE @]] :
   c \in FindClassResults}

\* JNI_OnLoad: ret = RegisterNatives(env, cls, sMethods, count).
OnLoad_register(m) ==
  {[m EXCEPT !.me = [@ EXCEPT
       !.trace = Append(@, Ev("RegisterNatives", LibOf(m.me.op), r)),
       !.ret = r,
       !.pc = "onLoad_deleteRef"]] :
   r \in RegisterNativesResults}

\* A load that reports the version whatever RegisterNatives returned.
OnLoad_deleteRef_ignoringRet(m) ==
  {[m EXCEPT !.me = [@ EXCEPT
       !.trace = Append(@, Ev("DeleteLocalRef", LibOf(m.me.op), m.me.cls)),
       !.cls = NULL,
       !.pc = "ret",
       !.result = JNI_VERSION_1_6]]}

\* JNI_OnLoad: DeleteLocalRef(env, cls); return ret == 0 ? JNI_VERSION_1_6
\* : JNI_ERR.
OnLoad_deleteRef(m) ==
  {[m EXCEPT !.me = [@ EXCEPT
       !.trace = Append(@, Ev("DeleteLocalRef", LibOf(m.me.op), m.me.cls)),
       !.cls = NULL,
       !.pc = "ret",
       !.result = IF m.me.ret = 0 THEN JNI_VERSION_1_6 ELSE JNI_ERR]]}

\* ------------------------------------------------------ running a call
\* The statements that read or write *ctx.
DerefsCtx ==
  {"c2Create_engine", "c2Create_sizes", "c2Destroy_engine",
   "c2GetSamplesPerFrame", "c2GetFrameBytes", "c2Encode_engine",
   "c2Encode_return", "c2Decode_engine", "c2Decode_return",
   "opusDestroy_enc", "opusDestroy_dec", "opusEncode_engine",
   "opusDecode_engine"}

\* The statement the call is at: the machines it can lead to.  Reading
\* through a pointer that is no block's address kills the process.
Stmt(m) ==
  IF m.me.pc \in DerefsCtx /\ m.me.ctx \notin CtxAddrs THEN {Crash(m)} ELSE
  CASE m.me.pc = "c2Create_malloc" -> C2Create_malloc(m)
    [] m.me.pc = "c2Create_engine" -> C2Create_engine(m)
    [] m.me.pc = "c2Create_sizes" -> C2Create_sizes(m)
    [] m.me.pc = "c2Destroy_entry" -> C2Destroy_entry(m)
    [] m.me.pc = "c2Destroy_engine" -> C2Destroy_engine(m)
    [] m.me.pc = "c2Destroy_free" -> C2Destroy_free(m)
    [] m.me.pc = "c2GetSamplesPerFrame" -> C2GetSamplesPerFrame(m)
    [] m.me.pc = "c2GetFrameBytes" -> C2GetFrameBytes(m)
    [] m.me.pc = "c2Encode_pcm" -> C2Encode_pcm(m)
    [] m.me.pc = "c2Encode_out" -> C2Encode_out(m)
    [] m.me.pc = "c2Encode_engine" -> C2Encode_engine(m)
    [] m.me.pc = "c2Encode_relPcm" -> C2Encode_relPcm(m)
    [] m.me.pc = "c2Encode_relOut" -> C2Encode_relOut(m)
    [] m.me.pc = "c2Encode_return" -> C2Encode_return(m)
    [] m.me.pc = "c2Decode_enc" -> C2Decode_enc(m)
    [] m.me.pc = "c2Decode_pcm" -> C2Decode_pcm(m)
    [] m.me.pc = "c2Decode_engine" -> C2Decode_engine(m)
    [] m.me.pc = "c2Decode_relEnc" -> C2Decode_relEnc(m)
    [] m.me.pc = "c2Decode_relPcm" -> C2Decode_relPcm(m)
    [] m.me.pc = "c2Decode_return" -> C2Decode_return(m)
    [] m.me.pc = "opusCreate_enc" -> OpusCreate_enc(m)
    [] m.me.pc = "opusCreate_ctl" -> OpusCreate_ctl(m)
    [] m.me.pc = "opusCreate_dec" -> OpusCreate_dec(m)
    [] m.me.pc = "opusCreate_ctx" -> OpusCreate_ctx(m)
    [] m.me.pc = "opusDestroy_entry" -> OpusDestroy_entry(m)
    [] m.me.pc = "opusDestroy_enc" -> OpusDestroy_enc(m)
    [] m.me.pc = "opusDestroy_dec" -> OpusDestroy_dec(m)
    [] m.me.pc = "opusDestroy_free" -> OpusDestroy_free(m)
    [] m.me.pc = "opusEncode_pcm" -> OpusEncode_pcm(m)
    [] m.me.pc = "opusEncode_out" -> OpusEncode_out(m)
    [] m.me.pc = "opusEncode_engine" -> OpusEncode_engine(m)
    [] m.me.pc = "opusEncode_relPcm" -> OpusEncode_relPcm(m)
    [] m.me.pc = "opusEncode_relOut" -> OpusEncode_relOut(m)
    [] m.me.pc = "opusDecode_enc" -> OpusDecode_enc(m)
    [] m.me.pc = "opusDecode_pcm" -> OpusDecode_pcm(m)
    [] m.me.pc = "opusDecode_engine" -> OpusDecode_engine(m)
    [] m.me.pc = "opusDecode_relEnc" -> OpusDecode_relEnc(m)
    [] m.me.pc = "opusDecode_relPcm" -> OpusDecode_relPcm(m)
    [] m.me.pc = "onLoad_getEnv" -> OnLoad_getEnv(m)
    [] m.me.pc = "onLoad_findClass" -> OnLoad_findClass(m)
    [] m.me.pc = "onLoad_register" -> OnLoad_register(m)
    [] m.me.pc = "onLoad_deleteRef" -> OnLoad_deleteRef(m)
    [] OTHER -> {}

\* A call runs its statements until it returns or the process dies: the
\* machines it can end in.
RECURSIVE Run(_)
Run(m) ==
  IF m.crashed \/ m.me.pc = "ret" THEN {m}
  ELSE UNION {Run(n) : n \in Stmt(m)}

\* Thread t, outside the bridge, makes the call and the call runs.
Invoke(t, call) ==
  /\ ~crashed
  /\ th[t].pc = "idle"
  /\ loaded[LibOf(call.op)] = (IF call.pc = "onLoad_getEnv" THEN "no" ELSE "ok")
  /\ \E m \in Run([Machine(t) EXCEPT !.me = call]) :
       /\ heap' = m.heap
       /\ eng' = m.eng
       /\ th' = [th EXCEPT ![t] = m.me]
       /\ badFree' = m.badFree
       /\ crashed' = m.crashed

\* ------------------------------------------------------- the operations
\* Codec2 create(mode).
Codec2Create(t) ==
  /\ CanCreate
  /\ \E mode \in caller.modes : Invoke(t, C2Create_call(mode))
  /\ UNCHANGED <<held, caller, destroyed, loaded>>

\* Codec2 destroy(handle), on a handle the caller holds, which it gives
\* up, or on zero.
Codec2Destroy(t) ==
  /\ \E h \in {r.h : r \in Usable("c2")} \cup {0} :
       /\ Invoke(t, C2Destroy_call(h))
       /\ held' = held \ {[h |-> h, type |-> "c2"]}
       /\ destroyed' = IF caller.tracks THEN destroyed \cup ({h} \ {0})
                       ELSE destroyed
  /\ UNCHANGED <<caller, loaded>>

\* Codec2 getSamplesPerFrame(handle).
Codec2GetSamplesPerFrame(t) ==
  /\ \E r \in Usable("c2") : Invoke(t, C2GetSamplesPerFrame_call(r.h))
  /\ UNCHANGED <<held, caller, destroyed, loaded>>

\* Codec2 getFrameBytes(handle).
Codec2GetFrameBytes(t) ==
  /\ \E r \in Usable("c2") : Invoke(t, C2GetFrameBytes_call(r.h))
  /\ UNCHANGED <<held, caller, destroyed, loaded>>

\* Codec2 encode(handle, pcm, out).
Codec2Encode(t) ==
  /\ \E r \in Usable("c2"), pcm \in DataVals :
       Invoke(t, C2Encode_call(r.h, pcm))
  /\ UNCHANGED <<held, caller, destroyed, loaded>>

\* Codec2 decode(handle, encoded, pcmOut).
Codec2Decode(t) ==
  /\ \E r \in Usable("c2"), bytes \in DataVals :
       Invoke(t, C2Decode_call(r.h, bytes))
  /\ UNCHANGED <<held, caller, destroyed, loaded>>

\* Opus create(sampleRate, channels, application, bitrate, complexity).
OpusCreate(t) ==
  /\ CanCreate
  /\ \E c \in caller.opus :
       Invoke(t, OpusCreate_call(c[1][1], c[1][2], c[1][3], c[2], c[3]))
  /\ UNCHANGED <<held, caller, destroyed, loaded>>

\* Opus destroy(handle).
OpusDestroy(t) ==
  /\ \E h \in {r.h : r \in Usable("opus")} \cup {0} :
       /\ Invoke(t, OpusDestroy_call(h))
       /\ held' = held \ {[h |-> h, type |-> "opus"]}
       /\ destroyed' = IF caller.tracks THEN destroyed \cup ({h} \ {0})
                       ELSE destroyed
  /\ UNCHANGED <<caller, loaded>>

\* Opus encode(handle, pcm, framesPerChannel, out).
OpusEncode(t) ==
  /\ \E r \in Usable("opus"), pcm \in DataVals, frames \in FrameInputs,
        outLen \in LenInputs :
       Invoke(t, OpusEncode_call(r.h, pcm, frames, outLen))
  /\ UNCHANGED <<held, caller, destroyed, loaded>>

\* Opus decode(handle, encoded, pcmOut, maxFramesPerChannel): the array
\* has encLen elements, of which the caller has filled the first few; the
\* native method has no parameter for that number.
OpusDecode(t) ==
  /\ \E r \in Usable("opus"), bytes \in DataVals, frames \in FrameInputs,
        encLen \in LenInputs :
       \E filled \in 0..encLen :
         Invoke(t, [OpusDecode_call(r.h, bytes, encLen, frames)
                      EXCEPT !.declared = filled])
  /\ UNCHANGED <<held, caller, destroyed, loaded>>

\* System.loadLibrary of one of the two libraries: the runtime calls its
\* JNI_OnLoad.
Load(t, lib) ==
  /\ Invoke(t, OnLoad_call(lib))
  /\ UNCHANGED <<held, caller, destroyed, loaded>>

\* The native method has returned: the caller takes the result, and keeps
\* a non-zero handle that create returned; the runtime keeps a library
\* whose JNI_OnLoad returned a version.
Return(t) ==
  /\ ~crashed
  /\ th[t].pc = "ret"
  /\ held' = IF th[t].op = "c2_create" /\ th[t].result # 0
             THEN held \cup {[h |-> th[t].result, type |-> "c2"]}
             ELSE IF th[t].op = "opus_create" /\ th[t].result # 0
             THEN held \cup {[h |-> th[t].result, type |-> "opus"]}
             ELSE held
  /\ loaded' = IF th[t].op \in {"c2_onload", "opus_onload"}
               THEN [loaded EXCEPT ![LibOf(th[t].op)] =
                       IF th[t].result = JNI_VERSION_1_6 THEN "ok" ELSE "failed"]
               ELSE loaded
  /\ th' = [th EXCEPT ![t] = IdleT]
  /\ UNCHANGED <<heap, eng, caller, badFree, crashed, destroyed>>

\* The thread the caller calls from.
MainThread == "T1"

Next ==
  \/ Codec2Create(MainThread)
  \/ Codec2Destroy(MainThread)
  \/ Codec2GetSamplesPerFrame(MainThread)
  \/ Codec2GetFrameBytes(MainThread)
  \/ Codec2Encode(MainThread)
  \/ Codec2Decode(MainThread)
  \/ OpusCreate(MainThread)
  \/ OpusDestroy(MainThread)
  \/ OpusEncode(MainThread)
  \/ OpusDecode(MainThread)
  \/ Return(MainThread)

Spec == Init /\ [][Next]_vars

\* The program from before the libraries are loaded.
NextLoad ==
  \/ Load(MainThread, "c2")
  \/ Load(MainThread, "opus")
  \/ Next

SpecLoad == InitLoad /\ [][NextLoad]_vars

\* ------------------------------------------------- calls from two threads
\* A caller that holds two handles, each opened with one configuration,
\* and codes on them from two threads: the main thread opens the adapters
\* and encodes what is captured, the other decodes what arrives.
TwoThreadCaller ==
  [modes |-> {CODEC2_MODE_700C}, maxLive |-> 2, tracks |-> FALSE,
   opus |-> {<<<<48000, 1, 2048>>, 16000, 5>>}]

InitMT ==
  /\ Fresh
  /\ caller = TwoThreadCaller
  /\ loaded = [l \in Libs |-> "ok"]

\* Thread t, outside the bridge, enters a native method.
Begin(t, call) ==
  /\ ~crashed
  /\ th[t].pc = "idle"
  /\ loaded[LibOf(call.op)] = "ok"
  /\ th' = [th EXCEPT ![t] = call]
  /\ UNCHANGED <<heap, eng, held, caller, badFree, crashed, destroyed, loaded>>

\* Thread t, inside a native method, runs its next statement.
Step(t) ==
  /\ ~crashed
  /\ th[t].pc \notin {"idle", "ret"}
  /\ \E m \in Stmt(Machine(t)) :
       /\ heap' = m.heap
       /\ eng' = m.eng
       /\ th' = [th EXCEPT ![t] = m.me]
       /\ badFree' = m.badFree
       /\ crashed' = m.crashed
  /\ UNCHANGED <<held, caller, destroyed, loaded>>

\* Either thread starts an encode or a decode on a handle no other call is
\* using.
BeginCodec2Encode(t) ==
  \E r \in Usable("c2"), pcm \in DataVals : Begin(t, C2Encode_call(r.h, pcm))

BeginCodec2Decode(t) ==
  \E r \in Usable("c2"), bytes \in DataVals :
    Begin(t, C2Decode_call(r.h, bytes))

BeginOpusEncode(t) ==
  \E r \in Usable("opus"), pcm \in DataVals, frames \in OpusFrames :
    Begin(t, OpusEncode_call(r.h, pcm, frames, MaxLen))

BeginOpusDecode(t) ==
  \E r \in Usable("opus"), bytes \in DataVals, frames \in OpusFrames :
    Begin(t, [OpusDecode_call(r.h, bytes, MaxLen, frames)
                EXCEPT !.declared = MaxLen])

\* The main thread creates the handles, whole calls at a time; both
\* threads code on them, statement by statement.
NextMT ==
  \/ Codec2Create(MainThread)
  \/ OpusCreate(MainThread)
  \/ \E t \in Threads : Return(t)
  \/ BeginCodec2Encode(MainThread)
  \/ BeginOpusEncode(MainThread)
  \/ \E t \in Threads \ {MainThread} : BeginCodec2Decode(t)
  \/ \E t \in Threads \ {MainThread} : BeginOpusDecode(t)
  \/ \E t \in Threads : Step(t)

SpecMT == InitMT /\ [][NextMT]_vars

\* ---------------------------------------------------------- properties
\* Thread t's call has returned from the native method `op`.
Returned(t, op) == th[t].pc = "ret" /\ th[t].op = op

\* The handles that refer to a context: those the caller holds, and the
\* one a create is just returning.
Pending ==
  {[h |-> th[t].result, type |-> IF th[t].op = "c2_create" THEN "c2" ELSE "opus"] :
     t \in {u \in Threads : th[u].pc = "ret" /\ th[u].result # 0
                            /\ th[u].op \in {"c2_create", "opus_create"}}}

LiveHandles == held \cup Pending

\* The engine instances a context block refers to.
EnginesOf(b) ==
  IF b.kind = "c2ctx" THEN {b.c2}
  ELSE IF b.kind = "opusctx" THEN {b.enc, b.dec} ELSE {}

\* Every live block and every live engine instance belongs to a handle.
NoOrphans ==
  /\ \A a \in CtxAddrs : heap[a].kind # "free" =>
       \E r \in LiveHandles : ctx_from_handle(r.h) = a
  /\ \A e \in EngIds : eng[e].kind # "free" =>
       \E r \in LiveHandles : e \in EnginesOf(heap[ctx_from_handle(r.h)])

\* Positions of a call's history where something was constructed.
AllocEvents(tr) == {i \in DOMAIN tr : tr[i].ev = "alloc"}

\* Positions of a call's history where something was released.
FreeEvents(tr) == {i \in DOMAIN tr : tr[i].ev = "free"}

\* What was constructed at position i was released exactly once, later.
ReleasedOnceAfter(tr, i) ==
  LET rel == {j \in FreeEvents(tr) :
                tr[j].what = tr[i].what /\ tr[j].at = tr[i].at}
  IN Cardinality(rel) = 1 /\ \A j \in rel : j > i

\* The object is not live now.
NowFree(what, at) ==
  IF what = "ctx" THEN heap[at].kind = "free" ELSE eng[at].kind = "free"

\* The call released everything it had constructed, once each, and nothing
\* else.
ReleasedAllItMade(tr) ==
  /\ \A i \in AllocEvents(tr) :
       ReleasedOnceAfter(tr, i) /\ NowFree(tr[i].what, tr[i].at)
  /\ \A j \in FreeEvents(tr) :
       \E i \in AllocEvents(tr) :
         i < j /\ tr[i].what = tr[j].what /\ tr[i].at = tr[j].at

\* The engine instances of kind k that are live in en.
LiveEng(en, k) == {e \in EngIds : en[e].kind = k}

\* The context blocks that are live in hp.
LiveCtx(hp) == {a \in CtxAddrs : hp[a].kind # "free"}

\* A step over which the numbers of live encoders, decoders, fixed-frame
\* engines and contexts stay what they were.
SameLiveCounts ==
  /\ \A k \in {"c2", "enc", "dec"} :
       Cardinality(LiveEng(eng', k)) = Cardinality(LiveEng(eng, k))
  /\ Cardinality(LiveCtx(heap')) = Cardinality(LiveCtx(heap))

\* A step in which thread t makes the call `op`.
Calls(t, op) == th[t].pc = "idle" /\ th'[t].pc = "ret" /\ th'[t].op = op

\* What a returned variable-frame create has done: a non-zero handle only
\* with all three constructed and nothing released; with zero, everything it
\* constructed released once and nothing left over.
OpusCreateOutcome(t) ==
  LET tr == th[t].trace IN
  /\ th[t].result # 0 =>
       /\ {tr[i].what : i \in AllocEvents(tr)} = {"enc", "dec", "ctx"}
       /\ FreeEvents(tr) = {}
  /\ th[t].result = 0 =>
       /\ ReleasedAllItMade(tr)
       /\ ~badFree
       /\ NoOrphans

\* C1: a variable-frame create returns a non-zero handle only when the
\* encoder, the decoder and the context were all constructed; when any of
\* the three steps fails it returns zero, and by then each sub-resource it
\* had constructed has been released exactly once, nothing else has been
\* released, and the numbers of live encoders, decoders and contexts are
\* what they were before the call.
C1_OpusCreateFailureReleasesAll ==
  [][\A t \in Threads : Calls(t, "opus_create") =>
       /\ OpusCreateOutcome(t)'
       /\ th'[t].result = 0 => SameLiveCounts]_vars

\* C1's case: malloc failed after the encoder and the decoder had been
\* constructed.
C1_Witness ==
  \E t \in Threads :
    /\ Returned(t, "opus_create") /\ th[t].result = 0
    /\ {th[t].trace[i].what : i \in AllocEvents(th[t].trace)} = {"enc", "dec"}
    /\ held # {}

\* What a returned fixed-frame create has done: zero for a mode outside
\* the engine's set; with zero, the context it allocated freed once, no
\* engine instance constructed, nothing left over.
Codec2CreateOutcome(t) ==
  LET tr == th[t].trace IN
  /\ th[t].mode \notin ValidModes => th[t].result = 0
  /\ th[t].result = 0 =>
       /\ ReleasedAllItMade(tr)
       /\ \A i \in AllocEvents(tr) : tr[i].what = "ctx"
       /\ ~badFree
       /\ NoOrphans

\* C2: a fixed-frame create with a mode the engine rejects returns zero,
\* and a fixed-frame create that returns zero has freed the context it
\* allocated exactly once, has constructed no engine instance, and leaves
\* the numbers of live contexts and engines what they were before the call.
C2_Codec2CreateRejectLeavesNothing ==
  [][\A t \in Threads : Calls(t, "c2_create") =>
       /\ Codec2CreateOutcome(t)'
       /\ th'[t].result = 0 => SameLiveCounts]_vars

\* C2's case: the context was allocated and the engine rejected the mode.
C2_Witness ==
  \E t \in Threads :
    /\ Returned(t, "c2_create") /\ th[t].mode \notin ValidModes
    /\ Len(th[t].trace) = 2
    /\ th[t].trace[1].ev = "alloc" /\ th[t].trace[2].ev = "free"

\* No call is running and no create is handing a handle over.
Quiet ==
  /\ ~crashed
  /\ \A t \in Threads : th[t].pc \in {"idle", "ret"}
  /\ Pending = {}

\* C3: nothing is ever released that is not live, and once the caller has
\* destroyed every handle it got, no context block and no engine instance is
\* left.
C3_ResourceBalance ==
  /\ ~badFree
  /\ (Quiet /\ held = {}) =>
       /\ \A a \in CtxAddrs : heap[a].kind = "free"
       /\ \A e \in EngIds : eng[e].kind = "free"

\* C3's case: the destroy of the last handle, a variable-frame one, has
\* released its encoder, its decoder and its context and returned.
C3_Witness ==
  \E t \in Threads :
    /\ Returned(t, "opus_destroy") /\ th[t].handle # 0
    /\ Len(th[t].trace) = 3
    /\ held = {}

\* C4: between bridge calls every variable-frame handle refers to a context
\* that owns a live encoder and a live decoder, and every live encoder and
\* decoder is owned by exactly one such context.
C4_PairedLifetime ==
  LET opus == {r \in LiveHandles : r.type = "opus"} IN
  /\ \A r \in opus :
       LET b == heap[ctx_from_handle(r.h)] IN
       /\ b.kind = "opusctx"
       /\ b.enc \in EngIds /\ eng[b.enc].kind = "enc"
       /\ b.dec \in EngIds /\ eng[b.dec].kind = "dec"
  /\ \A e \in EngIds : eng[e].kind \in {"enc", "dec"} =>
       Cardinality({r \in opus :
                      e \in EnginesOf(heap[ctx_from_handle(r.h)])}) = 1

\* C4's case: a variable-frame handle is live and a later create has just
\* failed after constructing its encoder.
C4_Witness ==
  \E t \in Threads :
    /\ Returned(t, "opus_create") /\ th[t].result = 0
    /\ Len(th[t].trace) > 0
    /\ \E r \in held : r.type = "opus"

\* A step in which thread t calls destroy with the zero handle.
DestroyZero(t) ==
  /\ th[t].pc = "idle"
  /\ th'[t].op \in {"c2_destroy", "opus_destroy"}
  /\ th'[t].handle = 0

\* C5: destroy with the zero handle returns having released nothing: the
\* heap, the engine instances and the caller's handles are as before.
C5_DestroyZeroIsNoOp ==
  [][\A t \in Threads : DestroyZero(t) =>
       /\ th'[t].pc = "ret" /\ th'[t].trace = <<>>
       /\ ~crashed'
       /\ UNCHANGED <<heap, eng, held, badFree>>]_vars

\* C5's case: destroy(0) has returned while two handles are live.
C5_Witness ==
  \E t \in Threads :
    /\ th[t].pc = "ret" /\ th[t].op \in {"c2_destroy", "opus_destroy"}
    /\ th[t].handle = 0
    /\ Cardinality(held) = 2

\* A create that constructed what it set out to and released none of it.
Constructed(t) ==
  /\ th[t].pc = "ret" /\ th[t].op \in {"c2_create", "opus_create"}
  /\ {th[t].trace[i].what : i \in AllocEvents(th[t].trace)}
       = (IF th[t].op = "c2_create" THEN {"ctx", "c2"} ELSE {"enc", "dec", "ctx"})
  /\ FreeEvents(th[t].trace) = {}

\* C6 as stated: for each of the seven valid fixed-frame modes create
\* returns a non-zero handle.
C6_ValidModeAlwaysNonZero ==
  \A t \in Threads :
    (Returned(t, "c2_create") /\ th[t].mode \in ValidModes) => th[t].result # 0

\* C6: for each of the seven valid fixed-frame modes, create returns a
\* non-zero handle, the address of its context, whenever the context's
\* allocation and the engine's construction both succeed; it returns zero
\* only when one of the two failed.
C6_ValidModeNonZeroUnlessAllocFails ==
  \A t \in Threads :
    (Returned(t, "c2_create") /\ th[t].mode \in ValidModes) =>
      /\ th[t].result # 0 <=> Constructed(t)
      /\ Constructed(t) =>
           /\ th[t].result = handle_from_ctx(th[t].ctx)
           /\ heap[th[t].ctx].kind = "c2ctx"
           /\ eng[heap[th[t].ctx].c2].kind = "c2"

\* C6's case: create(700C), the mode whose number is not next to the
\* others', has returned a handle.
C6_Witness ==
  \E t \in Threads :
    /\ Returned(t, "c2_create") /\ th[t].mode = CODEC2_MODE_700C
    /\ th[t].result # 0

\* The kind of block a handle of the given adapter refers to.
KindOf(type) == IF type = "c2" THEN "c2ctx" ELSE "opusctx"

\* C7: every create that constructed its context returns a non-zero handle
\* that leads back to that context, every live handle is non-zero and
\* refers to a live context of its adapter, and no two live handles, the
\* one being returned included, refer to the same context.
C7_HandlesUnique ==
  /\ \A t \in Threads : Constructed(t) =>
       /\ th[t].result # 0
       /\ ctx_from_handle(th[t].result) = th[t].ctx
       /\ \A r \in held : ctx_from_handle(r.h) # th[t].ctx
  /\ \A r \in LiveHandles :
       /\ r.h # 0
       /\ ctx_from_handle(r.h) \in CtxAddrs
       /\ heap[ctx_from_handle(r.h)].kind = KindOf(r.type)
  /\ \A r1, r2 \in LiveHandles :
       r1 # r2 => ctx_from_handle(r1.h) # ctx_from_handle(r2.h)

\* C7's case: a create returns a handle whose sign bit is set while a
\* handle of the other adapter is live.
C7_Witness ==
  \E t \in Threads :
    /\ Constructed(t) /\ th[t].op = "c2_create" /\ th[t].result < 0
    /\ \E r \in held : r.type = "opus"

\* The fixed-frame handles the caller holds.
Codec2Handles == {r \in held : r.type = "c2"}

\* The sizes cached in the context a handle refers to.
CachedSizes(hp, h) ==
  <<hp[ctx_from_handle(h)].nsam, hp[ctx_from_handle(h)].nbyte>>

\* C8 in a state: a live fixed-frame context's cached sizes are its
\* engine's, and a size query that has returned gave the cached value.
SizesFromEngine ==
  /\ \A r \in Codec2Handles :
       LET b == heap[ctx_from_handle(r.h)] IN
       /\ b.nsam = eng[b.c2].nsam
       /\ b.nbyte = eng[b.c2].nbyte
  /\ \A t \in Threads :
       /\ Returned(t, "c2_nsam") =>
            th[t].result = heap[ctx_from_handle(th[t].handle)].nsam
       /\ Returned(t, "c2_nbyte") =>
            th[t].result = heap[ctx_from_handle(th[t].handle)].nbyte

\* C8: the sizes a live fixed-frame handle reports are the ones its engine
\* gave at creation, and no call on this handle or on another one changes
\* them while the handle is live.
C8_CachedSizesConstant ==
  [][/\ SizesFromEngine'
     /\ \A r \in Codec2Handles \cap Codec2Handles' :
          CachedSizes(heap', r.h) = CachedSizes(heap, r.h)]_vars

\* C8's case: a size query returns on a handle whose engine has coded a
\* frame, while a second fixed-frame handle of another mode is live.
C8_Witness ==
  \E t \in Threads :
    /\ Returned(t, "c2_nsam")
    /\ eng[heap[ctx_from_handle(th[t].handle)].c2].st # 0
    /\ \E r \in Codec2Handles :
         /\ r.h # th[t].handle
         /\ CachedSizes(heap, r.h) # CachedSizes(heap, th[t].handle)

\* C9: a fixed-frame encode that returns gives bytesPerFrame of its handle
\* and a fixed-frame decode that returns gives samplesPerFrame of its
\* handle, whatever the buffers held and whatever was called before.
C9_Codec2ReturnsFrameSizes ==
  \A t \in Threads :
    /\ Returned(t, "c2_encode") =>
         th[t].result = eng[heap[ctx_from_handle(th[t].handle)].c2].nbyte
    /\ Returned(t, "c2_decode") =>
         th[t].result = eng[heap[ctx_from_handle(th[t].handle)].c2].nsam

\* C9's case: an encode has returned on an engine that had coded a frame
\* before, with input that is not all zero.
C9_Witness ==
  \E t \in Threads :
    /\ Returned(t, "c2_encode")
    /\ th[t].pcmArr # 0
    /\ eng[heap[ctx_from_handle(th[t].handle)].c2].st = 0
    /\ th[t].result = codec2_bytes_per_frame(CODEC2_MODE_700C)

\* The encode and decode calls of both adapters.
CodingOps == {"c2_encode", "c2_decode", "opus_encode", "opus_decode"}

\* Positions of a call's history where a view of the array `what` was
\* acquired, and where one was released.
Acquired(tr, what) == {i \in DOMAIN tr : tr[i].ev = "acquire" /\ tr[i].what = what}
Released(tr, what) == {i \in DOMAIN tr : tr[i].ev = "release" /\ tr[i].what = what}

\* C10: when an encode or decode call of either adapter returns, each view
\* it acquired has been released exactly once, after it was acquired, and
\* nothing was released that was not acquired; outside a call no view is
\* held.
C10_ViewsReleasedOnce ==
  \A t \in Threads :
    /\ (th[t].pc = "ret" /\ th[t].op \in CodingOps) =>
         \A what \in {"pcm", "byte"} :
           LET tr == th[t].trace IN
           /\ Cardinality(Released(tr, what)) = Cardinality(Acquired(tr, what))
           /\ Cardinality(Acquired(tr, what)) <= 1
           /\ \A i \in Acquired(tr, what) : \A j \in Released(tr, what) : i < j
    /\ th[t].pc \in {"idle", "ret"} =>
         /\ th[t].pcmBuf.kind \notin {"direct", "copy"}
         /\ th[t].byteBuf.kind \notin {"direct", "copy"}

\* C10's case: a variable-frame decode whose engine reported a negative
\* result has returned, having acquired both views, one of them a copy.
C10_Witness ==
  \E t \in Threads :
    /\ Returned(t, "opus_decode") /\ th[t].result < 0
    /\ Acquired(th[t].trace, "pcm") # {} /\ Acquired(th[t].trace, "byte") # {}
    /\ Cardinality(Released(th[t].trace, "pcm")) = 1
    /\ Cardinality(Released(th[t].trace, "byte")) = 1

\* The calls whose input is the sample array and whose output is the byte
\* array, and the other way round.
EncodeOps == {"c2_encode", "opus_encode"}
DecodeOps == {"c2_decode", "opus_decode"}

\* C11: when an encode or decode call of either adapter has returned, the
\* caller's input array holds what it held when the call was made, and the
\* caller's output array holds what the engine wrote through the output
\* view, whether the views were the arrays' own storage or copies.
C11_InputsUntouchedOutputsCommitted ==
  \A t \in Threads :
    /\ (th[t].pc = "ret" /\ th[t].op \in EncodeOps) =>
         th[t].pcmArr = th[t].input /\ th[t].byteArr = th[t].wrote
    /\ (th[t].pc = "ret" /\ th[t].op \in DecodeOps) =>
         th[t].byteArr = th[t].input /\ th[t].pcmArr = th[t].wrote

\* C11's case: a fixed-frame decode that acquired both views has returned,
\* its input not all zero and the engine's output different from the input.
C11_Witness ==
  \E t \in Threads :
    /\ Returned(t, "c2_decode")
    /\ Acquired(th[t].trace, "pcm") # {} /\ Acquired(th[t].trace, "byte") # {}
    /\ th[t].wrote # Stale /\ th[t].wrote # th[t].input
    /\ th[t].input # 0

\* What the engine can have read as the input of thread t's call: the
\* caller's input when the input view was acquired, anything otherwise.
InputsRead(me, what) ==
  IF Acquired(me.trace, what) # {} THEN {me.input} ELSE DataVals

\* The context of the call's handle is as it was and its encoder and
\* decoder are live after the step; the caller's handles are as they were.
PairStaysLive(h) ==
  LET a == ctx_from_handle(h) IN
  /\ heap'[a] = heap[a]
  /\ heap[a].kind = "opusctx"
  /\ eng'[heap[a].enc].kind = "enc"
  /\ eng'[heap[a].dec].kind = "dec"
  /\ held' = held

\* C12: a variable-frame encode or decode that returns gives exactly the
\* value the engine call gave for the encoder's or decoder's state, the
\* input and the sizes of that call, negative or not, and leaves the
\* handle's context with its encoder and decoder live.
C12_OpusReturnsEngineResult ==
  [][\A t \in Threads :
       /\ Calls(t, "opus_encode") =>
            LET me == th'[t]
                enc == heap[ctx_from_handle(me.handle)].enc
            IN /\ \E in \in InputsRead(me, "pcm") :
                    me.result = opus_encode(eng[enc], in, me.frames, me.len).ret
               /\ PairStaysLive(me.handle)
       /\ Calls(t, "opus_decode") =>
            LET me == th'[t]
                dec == heap[ctx_from_handle(me.handle)].dec
            IN /\ \E in \in InputsRead(me, "byte") :
                    me.result = opus_decode(eng[dec], in, me.len, me.frames).ret
               /\ PairStaysLive(me.handle)]_vars

\* C12's case: an encode has returned the engine's negative result for an
\* output array without room, on a handle the caller still holds.
C12_Witness ==
  \E t \in Threads :
    /\ Returned(t, "opus_encode")
    /\ th[t].result = OPUS_BUFFER_TOO_SMALL
    /\ Acquired(th[t].trace, "pcm") # {}
    /\ [h |-> th[t].handle, type |-> "opus"] \in held

\* C13 as stated: the length a variable-frame decode hands the engine is
\* the size the caller declared for the encoded data, which may be less
\* than the length of the array.
C13_DecodePassesDeclaredSize ==
  \A t \in Threads :
    Returned(t, "opus_decode") => th[t].len = th[t].declared

\* C13: the length a variable-frame decode hands the engine is the length
\* of the encoded array itself, whatever part of it the caller takes to be
\* the packet: the result is the engine's for the whole array.
C13_DecodePassesArrayLength ==
  [][\A t \in Threads : Calls(t, "opus_decode") =>
       LET me == th'[t]
           dec == heap[ctx_from_handle(me.handle)].dec
       IN /\ me.len = me.arrLen
          /\ \E in \in InputsRead(me, "byte") :
               me.result = opus_decode(eng[dec], in, me.arrLen, me.frames).ret]_vars

\* C13's case: the caller took none of a non-empty array to be the packet,
\* and the decoder was given the whole array and rejected its contents.
C13_Witness ==
  \E t \in Threads :
    /\ Returned(t, "opus_decode")
    /\ th[t].declared < th[t].arrLen
    /\ th[t].len = th[t].arrLen
    /\ th[t].result = OPUS_INVALID_PACKET

\* C14: a variable-frame encode gives the engine the length of the output
\* array as the most it may write, so a result that is not negative is at
\* most that length, whatever framesPerChannel was.
C14_EncodeWithinCapacity ==
  \A t \in Threads : Returned(t, "opus_encode") =>
    /\ th[t].len = th[t].arrLen
    /\ th[t].result >= 0 => th[t].result <= th[t].arrLen

\* C14's case: an encode has filled the output array to its last byte.
C14_Witness ==
  \E t \in Threads :
    /\ Returned(t, "opus_encode")
    /\ th[t].arrLen > 1 /\ th[t].result = th[t].arrLen

\* C15 as stated: once destroy has been called on a non-zero handle, that
\* handle value never refers to a live context again, whatever is created
\* later.
C15_DestroyedHandleNeverLiveAgain ==
  \A h \in destroyed : heap[ctx_from_handle(h)].kind = "free"

\* A step in which thread t destroys the non-zero handle h.
Destroys(t, h) ==
  /\ h # 0
  /\ th'[t].handle = h
  /\ Calls(t, "c2_destroy") \/ Calls(t, "opus_destroy")

\* C15: destroy is final for the context: the step that destroys a
\* non-zero handle leaves its context freed and its engine instances
\* released; a context becomes live only in a create that returns its
\* handle; so a destroyed handle value refers to a live context again only
\* when a later create returned that same value for a new context, which
\* the caller then holds as a live handle.
C15_DestroyedContextStaysReleased ==
  [][/\ \A t \in Threads : \A a \in CtxAddrs :
          Destroys(t, handle_from_ctx(a)) =>
            /\ heap'[a].kind = "free"
            /\ \A e \in EnginesOf(heap[a]) : eng'[e].kind = "free"
     /\ \A a \in CtxAddrs :
          (heap[a].kind = "free" /\ heap'[a].kind # "free") =>
            \E t \in Threads :
              /\ Calls(t, "c2_create") \/ Calls(t, "opus_create")
              /\ th'[t].result = handle_from_ctx(a)
     /\ \A h \in destroyed' :
          heap'[ctx_from_handle(h)].kind # "free" =>
            \E r \in LiveHandles' : r.h = h]_vars

\* C15's case: the caller holds a live handle whose value it had destroyed
\* before.
C15_Witness ==
  \E r \in held : r.h \in destroyed /\ heap[ctx_from_handle(r.h)].kind # "free"

\* The names of the runtime calls a load made, in order.
LoadSteps(tr) == [i \in DOMAIN tr |-> tr[i].ev]

\* C16: when JNI_OnLoad of either library returns, it has reported the
\* interface version exactly when GetEnv, FindClass and RegisterNatives all
\* succeeded and JNI_ERR otherwise; after a failing GetEnv or FindClass it
\* made no further call, after a failing RegisterNatives only the release
\* of the class reference; the class reference it obtained is released.
C16_LoadReportsRegistration ==
  \A t \in Threads :
    (th[t].pc = "ret" /\ th[t].op \in {"c2_onload", "opus_onload"}) =>
      LET tr == th[t].trace
          n == Len(tr)
      IN /\ n >= 1 /\ tr[1].ev = "GetEnv"
         /\ th[t].cls = NULL
         /\ IF tr[1].at # JNI_OK
            THEN n = 1 /\ th[t].result = JNI_ERR
            ELSE /\ n >= 2 /\ tr[2].ev = "FindClass"
                 /\ IF tr[2].at = NULL
                    THEN n = 2 /\ th[t].result = JNI_ERR
                    ELSE /\ LoadSteps(tr) = <<"GetEnv", "FindClass",
                                              "RegisterNatives", "DeleteLocalRef">>
                         /\ tr[4].at = tr[2].at
                         /\ th[t].result = IF tr[3].at = 0
                                           THEN JNI_VERSION_1_6 ELSE JNI_ERR

\* C16's case: the variable-frame library's registration failed and its
\* load reported the error, after the fixed-frame library had loaded and
\* was in use.
C16_Witness ==
  \E t \in Threads :
    /\ Returned(t, "opus_onload")
    /\ Len(th[t].trace) = 4 /\ th[t].trace[3].at # 0
    /\ th[t].result = JNI_ERR
    /\ loaded["c2"] = "ok" /\ held # {}

\* Thread t's step runs the engine statement at `pc` of its call.
RunsEngine(t, pc) == th[t].pc = pc /\ th'[t].pc # pc

\* What the output view's array receives: the value, when the view was
\* acquired.
WroteIfViewed(me, what, v) == Acquired(me.trace, what) # {} => me.wrote = v

\* C17: with calls on different handles interleaved statement by statement
\* from two threads, a step of an encode or decode changes nothing but its
\* own thread's locals and its own handle's engine instance, and what the
\* engine returns and writes is what it gives for that instance's state and
\* the call's own input; so each handle's results are those of its calls
\* run alone in the same order.
C17_HandlesIndependent ==
  [][\A t \in Threads :
       (th'[t] # th[t] /\ th'[t].op \in CodingOps) =>
         LET me == th'[t]
             b == heap[ctx_from_handle(me.handle)]
         IN /\ \A u \in Threads \ {t} : th'[u] = th[u]
            /\ heap' = heap /\ held' = held
            /\ \A e \in EngIds \ EnginesOf(b) : eng'[e] = eng[e]
            /\ RunsEngine(t, "c2Encode_engine") =>
                 \E in \in InputsRead(me, "pcm") :
                   /\ eng'[b.c2].st = codec2_frame(eng[b.c2], in).st
                   /\ WroteIfViewed(me, "byte", codec2_frame(eng[b.c2], in).out)
            /\ RunsEngine(t, "c2Decode_engine") =>
                 \E in \in InputsRead(me, "byte") :
                   /\ eng'[b.c2].st = codec2_frame(eng[b.c2], in).st
                   /\ WroteIfViewed(me, "pcm", codec2_frame(eng[b.c2], in).out)
            /\ RunsEngine(t, "opusEncode_engine") =>
                 \E in \in InputsRead(me, "pcm") :
                   LET r == opus_encode(eng[b.enc], in, me.frames, me.len) IN
                   /\ me.result = r.ret
                   /\ eng'[b.enc].st = r.st /\ eng'[b.dec] = eng[b.dec]
            /\ RunsEngine(t, "opusDecode_engine") =>
                 \E in \in InputsRead(me, "byte") :
                   LET r == opus_decode(eng[b.dec], in, me.len, me.frames) IN
                   /\ me.result = r.ret
                   /\ eng'[b.dec].st = r.st /\ eng'[b.enc] = eng[b.enc]]_vars

\* C17's case: one thread is past the engine statement of a fixed-frame
\* encode and has not returned while the other is past the engine
\* statement of a variable-frame decode on another handle.
C17_Witness ==
  /\ th["T1"].op = "c2_encode" /\ th["T1"].pc = "c2Encode_relOut"
  /\ th["T2"].op = "opus_decode" /\ th["T2"].pc = "opusDecode_relPcm"
  /\ th["T1"].handle # th["T2"].handle
  /\ ~crashed

\* Positions of a call's history where the encoder was tuned.
CtlEvents(tr) ==
  {i \in DOMAIN tr : tr[i].ev \in {"ctl_bitrate", "ctl_complexity"}}

\* Positions of a call's history where a construction failed.
FailedAllocs(tr) == {i \in DOMAIN tr : tr[i].ev = "alloc_failed"}

\* C18: a variable-frame create that constructed its encoder applies the
\* bitrate and then the complexity to that encoder, right after the
\* encoder's construction and before the decoder's, and applies nothing to
\* the decoder; it returns zero only when a construction or the context's
\* allocation failed, whatever the engine answered to the two settings.
C18_TuningOnEncoderOnlyAndIgnored ==
  \A t \in Threads :
    Returned(t, "opus_create") =>
      LET me == th[t]
          tr == me.trace
          encAt == {i \in AllocEvents(tr) : tr[i].what = "enc"}
          decAt == {i \in AllocEvents(tr) : tr[i].what = "dec"}
      IN /\ \A i \in CtlEvents(tr) :
              /\ tr[i].what = "enc"
              /\ \E j \in encAt : j < i /\ tr[j].at = tr[i].at
              /\ \A k \in decAt : i < k /\ tr[k].at # tr[i].at
         /\ encAt # {} =>
              /\ Len(tr) >= 3
              /\ tr[2] = Ev("ctl_bitrate", "enc", tr[1].at)
              /\ tr[3] = Ev("ctl_complexity", "enc", tr[1].at)
              /\ CtlEvents(tr) = {2, 3}
         /\ encAt = {} => CtlEvents(tr) = {}
         /\ me.result = 0 <=> FailedAllocs(tr) # {}

\* C18's case: the engine rejected both the bitrate and the complexity and
\* create returned a handle.
C18_Witness ==
  \E t \in Threads :
    /\ Returned(t, "opus_create") /\ th[t].result # 0
    /\ OPUS_SET_BITRATE(th[t].bitrate) # OPUS_OK
    /\ OPUS_SET_COMPLEXITY(th[t].complexity) # OPUS_OK
    /\ CtlEvents(th[t].trace) = {2, 3}

\* Positions of a call's history where the engine transform ran.
EngineEvents(tr) == {i \in DOMAIN tr : tr[i].ev = "engine"}

\* Positions of a call's history where a view of `what` was given back,
\* acquired or not.
ReleaseCalls(tr, what) ==
  {i \in DOMAIN tr : tr[i].ev \in {"release", "release_null"} /\ tr[i].what = what}

\* C19: in every encode and decode call of both adapters the engine
\* transform runs only while both views of the call are validly held: a
\* view of each array was successfully acquired before it, and neither has
\* been given back before it.
C19_EngineOnlyWhileViewsHeld ==
  \A t \in Threads :
    th[t].op \in CodingOps =>
      LET tr == th[t].trace IN
      \A i \in EngineEvents(tr) :
        \A what \in {"pcm", "byte"} :
          /\ \E j \in Acquired(tr, what) : j < i
          /\ \A j \in ReleaseCalls(tr, what) : i < j

\* C20: a destroy of a live handle first releases what the context wraps
\* (the engine instance of a fixed-frame context; the encoder, then the
\* decoder of a variable-frame one), each taken from the context while it
\* is still allocated, and frees the context as its last step, once.
C20_EnginesFirstContextLast ==
  [][\A t \in Threads :
       Destroys(t, th'[t].handle) =>
         LET a == ctx_from_handle(th'[t].handle)
             b == heap[a]
         IN /\ th'[t].trace =
                 IF th'[t].op = "c2_destroy"
                 THEN <<Ev("free", "c2", b.c2), Ev("free", "ctx", a)>>
                 ELSE <<Ev("free", "enc", b.enc), Ev("free", "dec", b.dec),
                        Ev("free", "ctx", a)>>
            /\ b.kind = (IF th'[t].op = "c2_destroy" THEN "c2ctx" ELSE "opusctx")
            /\ badFree' = badFree]_vars

\* C20's case: a variable-frame destroy of a live handle has returned,
\* having released three things, the context last.
C20_Witness ==
  \E t \in Threads :
    /\ Returned(t, "opus_destroy") /\ th[t].handle # 0
    /\ Len(th[t].trace) = 3
    /\ th[t].trace[3] = Ev("free", "ctx", ctx_from_handle(th[t].handle))
    /\ ~badFree

====
